---- MODULE Spec2Model ----
(***************************************************************************)
(* The close-watcher polyfill of src/src/closewatcher.ts: the per-window   *)
(* CloseWatcherManager, the InternalCloseWatcher registrations, the        *)
(* dismissal dispatcher processCloseWatchers and the user-activation       *)
(* listener.  Each operation of the source is an operator on a heap        *)
(* record, computed as the code computes it; each action of the state      *)
(* machine is one synchronous call of such an operation.                   *)
(***************************************************************************)
EXTENDS Integers, Sequences, FiniteSets, TLC

\* Most InternalCloseWatcher objects ever constructed in a run.
MaxWatchers == 3

\* Window identities: the ambient global `window` and one other window object.
GlobalWindow == "window"
Windows == {GlobalWindow, "other"}

\* The input events the listeners of listenForActivationTriggeringInputEvent can
\* receive, by the attributes notify reads: `class` is the event's constructor
\* (keydown: KeyboardEvent, mousedown: MouseEvent, pointerdown and pointerup:
\* PointerEvent, touchend: TouchEvent); key and pointerType are "" where the
\* class has no such attribute.  The Escape key reports key "Escape" in current
\* browsers and "Esc" in some older ones.
InputEvents ==
    [class : {"KeyboardEvent"}, key : {"Esc", "Escape", "a"}, pointerType : {""}, isTrusted : BOOLEAN]
    \cup [class : {"MouseEvent", "TouchEvent"}, key : {""}, pointerType : {""}, isTrusted : BOOLEAN]
    \cup [class : {"PointerEvent"}, key : {""}, pointerType : {"mouse", "touch"}, isTrusted : BOOLEAN]

\* The key releases the keyup listener added by apply() can receive, by the
\* attributes it reads; defaultPrevented is what earlier listeners left
KeyUpEvents ==
    [class : {"KeyboardEvent"}, key : {"Esc", "Escape"}, pointerType : {""}, isTrusted : {TRUE},
     defaultPrevented : BOOLEAN]

NoEvent == [class |-> "", key |-> "", pointerType |-> "", isTrusted |-> FALSE]

VARIABLES
    managers,           \* the managers Map: window -> [groups, allowedNumberOfGroups, nextUserInteractionAllowsAnewGroup]
    watchers,           \* the InternalCloseWatcher objects, in construction order: [window, isRunningCancelAction]
    closeActionCalls,   \* per watcher: how often its closeAction has been invoked
    cancelActionCalls,  \* per watcher: how often its cancelAction has been invoked
    defaultView,        \* document.defaultView is non-null
    listening,          \* the activation listeners' AbortSignal is not aborted
    timeouts,           \* the setTimeout callbacks of the keyup listener that have not run yet
    last                \* the operation that produced this state and what it called

vars == <<managers, watchers, closeActionCalls, cancelActionCalls, defaultView, listening, timeouts, last>>

----------------------------------------------------------------------------
\* Array helpers, as the JavaScript built-ins the code uses.

\* Array.prototype.includes
includes(array, x) == \E i \in 1..Len(array) : array[i] = x

\* Array.prototype.indexOf, 1-based; 0 stands for JavaScript's -1
indexOf(array, x) ==
    IF includes(array, x)
    THEN CHOOSE i \in 1..Len(array) : array[i] = x /\ \A j \in 1..(i - 1) : array[j] # x
    ELSE 0

\* array.splice(i, 1) with a 1-based index i inside the array
splice(array, i) == [j \in 1..(Len(array) - 1) |-> IF j < i THEN array[j] ELSE array[j + 1]]

\* Array.prototype.reverse: the contents after the in-place reversal
reverse(array) == [j \in 1..Len(array) |-> array[Len(array) + 1 - j]]

----------------------------------------------------------------------------
\* The heap the operations work on.

NewManager == [groups |-> <<>>, allowedNumberOfGroups |-> 1, nextUserInteractionAllowsAnewGroup |-> TRUE]

Heap == [managers |-> managers, watchers |-> watchers,
         closeActionCalls |-> closeActionCalls, cancelActionCalls |-> cancelActionCalls]

\* new CloseWatcherManager(window): the one manager of that window.  A manager
\* not yet constructed is represented by its initial field values.
CloseWatcherManager(heap, window) == heap.managers[window]

\* get isActive: looks the watcher up in the manager of the global `window`
isActive(heap, cw) ==
    LET manager == CloseWatcherManager(heap, GlobalWindow)
    IN \E i \in 1..Len(manager.groups) : includes(manager.groups[i], cw)

\* destroyLoop without the group.includes(this) test: indexOf's -1 makes
\* splice(-1, 1) remove the group's last element
RECURSIVE destroyLoopWithoutIncludes(_, _, _)
destroyLoopWithoutIncludes(groups, i, cw) ==
    IF i > Len(groups) THEN groups
    ELSE LET group == groups[i]
             spliced == IF includes(group, cw) THEN splice(group, indexOf(group, cw))
                        ELSE SubSeq(group, 1, Len(group) - 1)
             kept == [groups EXCEPT ![i] = spliced]
             pruned == IF Len(spliced) = 0 THEN splice(kept, i) ELSE kept
         IN destroyLoopWithoutIncludes(pruned, i + 1, cw)

\* destroyLoop without the pruning of a group that has become empty
RECURSIVE destroyLoopWithoutPruning(_, _, _)
destroyLoopWithoutPruning(groups, i, cw) ==
    IF i > Len(groups) THEN groups
    ELSE LET group == groups[i]
             spliced == IF includes(group, cw) THEN splice(group, indexOf(group, cw)) ELSE group
             kept == [groups EXCEPT ![i] = spliced]
         IN destroyLoopWithoutPruning(kept, i + 1, cw)

\* The body of destroy()'s for-of loop over the live manager.groups array,
\* from index i on: a group spliced out shifts the later groups down while the
\* iterator's index still advances.
RECURSIVE destroyLoop(_, _, _)
destroyLoop(groups, i, cw) ==
    IF i > Len(groups) THEN groups
    ELSE LET group == groups[i]
             spliced == IF includes(group, cw) THEN splice(group, indexOf(group, cw)) ELSE group
             kept == [groups EXCEPT ![i] = spliced]
             pruned == IF Len(spliced) = 0 THEN splice(kept, i) ELSE kept
         IN destroyLoop(pruned, i + 1, cw)

\* destroy(): works on the manager of the global `window`
destroy(heap, cw) ==
    LET manager == CloseWatcherManager(heap, GlobalWindow)
    IN [heap EXCEPT !.managers[GlobalWindow].groups = destroyLoop(manager.groups, 1, cw)]

\* this.closeAction(): the callback runs once more
closeAction(heap, cw) == [heap EXCEPT !.closeActionCalls[cw] = @ + 1]

\* close() without the isActive test
closeWithoutActiveCheck(heap, cw) ==
    IF defaultView
    THEN closeAction(destroy(heap, cw), cw)
    ELSE heap

\* close() without the document.defaultView test
closeWithoutContextCheck(heap, cw) ==
    IF isActive(heap, cw)
    THEN closeAction(destroy(heap, cw), cw)
    ELSE heap

\* close()
close(heap, cw) ==
    IF isActive(heap, cw) /\ defaultView
    THEN closeAction(destroy(heap, cw), cw)
    ELSE heap

RECURSIVE requestClose(_, _, _)
RECURSIVE processCloseWatchers(_, _, _)

\* this.cancelAction(): the callback runs once more and returns its verdict,
\* true to suppress the close.  verdicts[cw] is what the callback of watcher cw
\* does when it is invoked during the current operation: `suppress` is the
\* value it returns, and `reenters` what it calls synchronously before it
\* returns, the first time it runs: nothing, this.requestClose() of its own
\* watcher, or a dismissal signal that runs the dispatcher for the ambient
\* window.
cancelAction(heap, cw, verdicts) ==
    LET invoked == [heap EXCEPT !.cancelActionCalls[cw] = @ + 1]
        first == heap.cancelActionCalls[cw] = 0
        returned == IF first /\ verdicts[cw].reenters = "requestClose"
                    THEN requestClose(invoked, cw, verdicts).heap
                    ELSE IF first /\ verdicts[cw].reenters = "processCloseWatchers"
                    THEN processCloseWatchers(invoked, GlobalWindow, verdicts).heap
                    ELSE invoked
    IN [heap |-> returned, result |-> verdicts[cw].suppress]

\* requestClose() that closes whatever the cancelAction returned
requestCloseIgnoringVerdict(heap, cw, verdicts) ==
    IF isActive(heap, cw) /\ ~heap.watchers[cw].isRunningCancelAction
    THEN LET guarded == [heap EXCEPT !.watchers[cw].isRunningCancelAction = TRUE]
             answer == cancelAction(guarded, cw, verdicts)
         IN [heap |-> close(answer.heap, cw), result |-> TRUE]
    ELSE [heap |-> heap, result |-> TRUE]

\* requestClose() without the isRunningCancelAction test
requestCloseWithoutGuard(heap, cw, verdicts) ==
    IF isActive(heap, cw)
    THEN LET guarded == [heap EXCEPT !.watchers[cw].isRunningCancelAction = TRUE]
             answer == cancelAction(guarded, cw, verdicts)
         IN [heap |-> IF answer.result THEN answer.heap ELSE close(answer.heap, cw),
             result |-> TRUE]
    ELSE [heap |-> heap, result |-> TRUE]

\* requestClose(): the heap it leaves and the value it returns
requestClose(heap, cw, verdicts) ==
    IF isActive(heap, cw) /\ ~heap.watchers[cw].isRunningCancelAction
    THEN LET guarded == [heap EXCEPT !.watchers[cw].isRunningCancelAction = TRUE]
             answer == cancelAction(guarded, cw, verdicts)
         IN [heap |-> IF ~answer.result THEN close(answer.heap, cw) ELSE answer.heap,
             result |-> TRUE]
    ELSE [heap |-> heap, result |-> TRUE]

\* The for-of walk of processCloseWatchers over the live array of the group that
\* was last when the walk began (index gi of manager.groups), from array index i
\* on.  The array iterator re-reads the array's length at every step; a group
\* pruned from manager.groups is an empty array by then.  calls lists the
\* watchers requestClose() has been called on so far.
RECURSIVE walk(_, _, _, _, _, _)
walk(heap, window, gi, i, calls, verdicts) ==
    LET groups == CloseWatcherManager(heap, window).groups
        array == IF gi <= Len(groups) THEN groups[gi] ELSE <<>>
    IN IF i > Len(array) THEN [heap |-> heap, calls |-> calls]
       ELSE LET closeWatcher == array[i]
                request == requestClose(heap, closeWatcher, verdicts)
            IN IF ~request.result
               THEN [heap |-> request.heap, calls |-> Append(calls, closeWatcher)]
               ELSE walk(request.heap, window, gi, i + 1, Append(calls, closeWatcher), verdicts)

\* processCloseWatchers that decrements allowedNumberOfGroups without the > 1 test
processCloseWatchersAlwaysDecrementing(heap, window, verdicts) ==
    LET manager == CloseWatcherManager(heap, window)
        gi == Len(manager.groups)
        reversed == [heap EXCEPT !.managers[window].groups[gi] = reverse(@)]
        walked == IF gi > 0 THEN walk(reversed, window, gi, 1, <<>>, verdicts)
                  ELSE [heap |-> heap, calls |-> <<>>]
        allowed == CloseWatcherManager(walked.heap, window).allowedNumberOfGroups
    IN [heap |-> [walked.heap EXCEPT !.managers[window].allowedNumberOfGroups = allowed - 1],
        calls |-> walked.calls,
        result |-> (Len(walked.calls) > 0)]

\* processCloseWatchers that walks the group and then stores the reversed
\* membership it started from back into manager.groups
processCloseWatchersRestoringGroup(heap, window, verdicts) ==
    LET manager == CloseWatcherManager(heap, window)
        gi == Len(manager.groups)
        reversed == [heap EXCEPT !.managers[window].groups[gi] = reverse(@)]
        walked == IF gi > 0 THEN walk(reversed, window, gi, 1, <<>>, verdicts)
                  ELSE [heap |-> heap, calls |-> <<>>]
        restored == IF gi > 0 /\ gi <= Len(CloseWatcherManager(walked.heap, window).groups)
                    THEN [walked.heap EXCEPT !.managers[window].groups[gi] = reverse(manager.groups[gi])]
                    ELSE walked.heap
        allowed == CloseWatcherManager(restored, window).allowedNumberOfGroups
    IN [heap |-> IF allowed > 1
                 THEN [restored EXCEPT !.managers[window].allowedNumberOfGroups = allowed - 1]
                 ELSE restored,
        calls |-> walked.calls,
        result |-> (Len(walked.calls) > 0)]

\* processCloseWatchers with >= 1 for > 1 in the test before the decrement
processCloseWatchersDecrementingAtOne(heap, window, verdicts) ==
    LET manager == CloseWatcherManager(heap, window)
        gi == Len(manager.groups)
        reversed == [heap EXCEPT !.managers[window].groups[gi] = reverse(@)]
        walked == IF gi > 0 THEN walk(reversed, window, gi, 1, <<>>, verdicts)
                  ELSE [heap |-> heap, calls |-> <<>>]
        allowed == CloseWatcherManager(walked.heap, window).allowedNumberOfGroups
    IN [heap |-> IF allowed >= 1
                 THEN [walked.heap EXCEPT !.managers[window].allowedNumberOfGroups = allowed - 1]
                 ELSE walked.heap,
        calls |-> walked.calls,
        result |-> (Len(walked.calls) > 0)]

\* processCloseWatchers that walks manager.groups.at(0), the oldest group
processCloseWatchersWalkingOldestGroup(heap, window, verdicts) ==
    LET manager == CloseWatcherManager(heap, window)
        gi == IF Len(manager.groups) > 0 THEN 1 ELSE 0
        reversed == [heap EXCEPT !.managers[window].groups[gi] = reverse(@)]
        walked == IF gi > 0 THEN walk(reversed, window, gi, 1, <<>>, verdicts)
                  ELSE [heap |-> heap, calls |-> <<>>]
        allowed == CloseWatcherManager(walked.heap, window).allowedNumberOfGroups
    IN [heap |-> IF allowed > 1
                 THEN [walked.heap EXCEPT !.managers[window].allowedNumberOfGroups = allowed - 1]
                 ELSE walked.heap,
        calls |-> walked.calls,
        result |-> (Len(walked.calls) > 0)]

\* processCloseWatchers(window): the heap it leaves, the value it returns and
\* the requestClose() calls it made, in order
processCloseWatchers(heap, window, verdicts) ==
    LET manager == CloseWatcherManager(heap, window)
        gi == Len(manager.groups)
        reversed == [heap EXCEPT !.managers[window].groups[gi] = reverse(@)]
        walked == IF gi > 0 THEN walk(reversed, window, gi, 1, <<>>, verdicts)
                  ELSE [heap |-> heap, calls |-> <<>>]
        allowed == CloseWatcherManager(walked.heap, window).allowedNumberOfGroups
    IN [heap |-> IF allowed > 1
                 THEN [walked.heap EXCEPT !.managers[window].allowedNumberOfGroups = allowed - 1]
                 ELSE walked.heap,
        calls |-> walked.calls,
        result |-> (Len(walked.calls) > 0)]

\* The constructor with <= for < in the placement test
InternalCloseWatcherAtLimit(heap, window) ==
    LET this == Len(heap.watchers) + 1
        manager == CloseWatcherManager(heap, window)
        n == Len(manager.groups)
        built == [heap EXCEPT
                    !.watchers = Append(@, [window |-> window, isRunningCancelAction |-> FALSE]),
                    !.closeActionCalls = Append(@, 0),
                    !.cancelActionCalls = Append(@, 0)]
    IN IF n <= manager.allowedNumberOfGroups
       THEN [built EXCEPT !.managers[window].groups = Append(@, <<this>>)]
       ELSE IF n > 0
            THEN [built EXCEPT !.managers[window].groups[n] = Append(@, this)]
            ELSE built

\* The constructor that always starts a new group
InternalCloseWatcherAlwaysPushing(heap, window) ==
    LET this == Len(heap.watchers) + 1
        built == [heap EXCEPT
                    !.watchers = Append(@, [window |-> window, isRunningCancelAction |-> FALSE]),
                    !.closeActionCalls = Append(@, 0),
                    !.cancelActionCalls = Append(@, 0)]
    IN [built EXCEPT !.managers[window].groups = Append(@, <<this>>)]

\* new InternalCloseWatcher(cancelAction, closeAction, window): the new object is
\* the next entry of watchers, placed in a group of the manager of `window`.
\* groups.at(-1)! of an empty groups array would throw before anything is pushed.
InternalCloseWatcher(heap, window) ==
    LET this == Len(heap.watchers) + 1
        manager == CloseWatcherManager(heap, window)
        n == Len(manager.groups)
        built == [heap EXCEPT
                    !.watchers = Append(@, [window |-> window, isRunningCancelAction |-> FALSE]),
                    !.closeActionCalls = Append(@, 0),
                    !.cancelActionCalls = Append(@, 0)]
    IN IF n < manager.allowedNumberOfGroups
       THEN [built EXCEPT !.managers[window].groups = Append(@, <<this>>)]
       ELSE IF n > 0
            THEN [built EXCEPT !.managers[window].groups[n] = Append(@, this)]
            ELSE built

\* notify that neither clears nextUserInteractionAllowsAnewGroup nor aborts
notifyKeepingFlagArmed(ms, e) ==
    IF e.class = "KeyboardEvent" /\ e.key = "Esc" THEN [managers |-> ms, aborted |-> FALSE]
    ELSE IF e.class = "PointerEvent" /\ e.pointerType = "mouse" THEN [managers |-> ms, aborted |-> FALSE]
    ELSE IF e.isTrusted
    THEN LET manager == ms[GlobalWindow]
             raised == IF manager.nextUserInteractionAllowsAnewGroup
                       THEN manager.allowedNumberOfGroups + 1
                       ELSE manager.allowedNumberOfGroups
         IN [managers |-> [ms EXCEPT ![GlobalWindow].allowedNumberOfGroups = raised],
             aborted |-> FALSE]
    ELSE [managers |-> ms, aborted |-> FALSE]

\* notify(e) of listenForActivationTriggeringInputEvent: the managers it leaves
\* and whether it aborted the listeners' controller
notify(ms, e) ==
    IF e.class = "KeyboardEvent" /\ e.key = "Esc" THEN [managers |-> ms, aborted |-> FALSE]
    ELSE IF e.class = "PointerEvent" /\ e.pointerType = "mouse" THEN [managers |-> ms, aborted |-> FALSE]
    ELSE IF e.isTrusted
    THEN LET manager == ms[GlobalWindow]
             raised == IF manager.nextUserInteractionAllowsAnewGroup
                       THEN manager.allowedNumberOfGroups + 1
                       ELSE manager.allowedNumberOfGroups
         IN [managers |-> [ms EXCEPT ![GlobalWindow] =
                              [@ EXCEPT !.allowedNumberOfGroups = raised,
                                        !.nextUserInteractionAllowsAnewGroup = FALSE]],
             aborted |-> TRUE]
    ELSE [managers |-> ms, aborted |-> FALSE]

\* An input event reaches the document: notify is called while the listeners
\* added with the controller's signal are attached, and not after the abort
deliver(ms, attached, e) ==
    IF attached THEN notify(ms, e) ELSE [managers |-> ms, aborted |-> FALSE]

\* The keyup listener of apply(), `e => () => {...}`: called with the event it
\* evaluates its body, an arrow function expression, and returns that function.
\* Nothing calls the returned function, so the listener neither calls
\* e.preventDefault() nor setTimeout: it leaves the event as it was and
\* schedules no callback.
keyup(e) == [defaultPrevented |-> e.defaultPrevented, scheduled |-> 0]

----------------------------------------------------------------------------
\* The state machine: one action per call into the module.

Init ==
    /\ managers = [w \in Windows |-> NewManager]
    /\ watchers = <<>>
    /\ closeActionCalls = <<>>
    /\ cancelActionCalls = <<>>
    /\ defaultView = TRUE
    /\ listening = TRUE
    /\ timeouts = 0
    /\ last = [op |-> "init", cw |-> 0, window |-> GlobalWindow, event |-> NoEvent,
               group |-> <<>>, calls |-> <<>>, suppressed |-> {}, unsuppressed |-> {}]

\* What the cancelAction callbacks may do during one operation when none of
\* them calls back into the module: each returns a verdict.  requestClose()
\* invokes the callback only of a watcher that is active and not guarded, so
\* the verdict of any other watcher is immaterial and fixed.
Verdicts ==
    LET callable == {cw \in 1..Len(watchers) :
                        isActive(Heap, cw) /\ ~watchers[cw].isRunningCancelAction}
    IN {[cw \in 1..Len(watchers) |-> [suppress |-> cw \notin allowing, reenters |-> "nothing"]] :
            allowing \in SUBSET callable}

NoVerdicts == [cw \in 1..Len(watchers) |-> [suppress |-> TRUE, reenters |-> "nothing"]]

\* What the callbacks may do when one of them calls back into the module
\* before it returns
ReentrantVerdicts ==
    {[verdicts EXCEPT ![cw].reenters = reenters] :
        verdicts \in Verdicts,
        cw \in {w \in 1..Len(watchers) : isActive(Heap, w) /\ ~watchers[w].isRunningCancelAction},
        reenters \in {"requestClose", "processCloseWatchers"}}

\* The watchers whose cancelAction the operation leaving `heap` has invoked
Invoked(heap) == {cw \in 1..Len(watchers) : heap.cancelActionCalls[cw] > cancelActionCalls[cw]}

\* The group a dismissal dispatch for `window` walks, as it is stored when the
\* dispatch starts
LatestGroup(window) ==
    LET groups == managers[window].groups
    IN IF Len(groups) > 0 THEN groups[Len(groups)] ELSE <<>>

\* The heap an operation leaves becomes the state.  last records the latest
\* operation that changed the heap: for a dispatch the group it started on and
\* the requestClose() calls it made, and the verdicts of the cancelActions
\* invoked.  A call that changes nothing leaves the whole state as it was.
Becomes(heap, op, cw, window, calls, verdicts) ==
    /\ managers' = heap.managers
    /\ watchers' = heap.watchers
    /\ closeActionCalls' = heap.closeActionCalls
    /\ cancelActionCalls' = heap.cancelActionCalls
    /\ last' = IF heap = Heap THEN last
               ELSE [op |-> op, cw |-> cw, window |-> window, event |-> NoEvent,
                     group |-> IF op = "dispatch" THEN LatestGroup(window) ELSE <<>>,
                     calls |-> calls,
                     suppressed |-> {w \in Invoked(heap) : verdicts[w].suppress},
                     unsuppressed |-> {w \in Invoked(heap) : ~verdicts[w].suppress}]
    /\ UNCHANGED <<defaultView, listening, timeouts>>

\* A watcher is established for a window
Register(window) ==
    /\ Len(watchers) < MaxWatchers
    /\ Becomes(InternalCloseWatcher(Heap, window), "register", Len(watchers) + 1, window, <<>>, NoVerdicts)

\* watcher.destroy()
Destroy(cw) == Becomes(destroy(Heap, cw), "destroy", cw, watchers[cw].window, <<>>, NoVerdicts)

\* watcher.close()
Close(cw) == Becomes(close(Heap, cw), "close", cw, watchers[cw].window, <<>>, NoVerdicts)

\* watcher.requestClose(): only the verdict of its own cancelAction matters
RequestClose(cw) ==
    \E verdict \in BOOLEAN :
        LET verdicts == [NoVerdicts EXCEPT ![cw].suppress = verdict]
        IN Becomes(requestClose(Heap, cw, verdicts).heap, "requestClose", cw, watchers[cw].window, <<>>, verdicts)

\* A dismissal signal: processCloseWatchers(window)
Dispatch(window) ==
    \E verdicts \in Verdicts :
        LET done == processCloseWatchers(Heap, window, verdicts)
        IN Becomes(done.heap, "dispatch", 0, window, done.calls, verdicts)

\* The document receives an input event while notify is still attached to it
\* (after the abort an input event runs no code of the module)
InputEvent(e) ==
    LET told == deliver(managers, listening, e)
    IN /\ listening
       /\ managers' = told.managers
       /\ listening' = (listening /\ ~told.aborted)
       /\ last' = IF told.managers = managers /\ ~told.aborted THEN last
                  ELSE [op |-> "input", cw |-> 0, window |-> GlobalWindow, event |-> e,
                        group |-> <<>>, calls |-> <<>>, suppressed |-> {}, unsuppressed |-> {}]
       /\ UNCHANGED <<watchers, closeActionCalls, cancelActionCalls, defaultView, timeouts>>

\* The document loses its browsing context: document.defaultView becomes null
DetachDocument ==
    /\ defaultView
    /\ defaultView' = FALSE
    /\ last' = [op |-> "detach", cw |-> 0, window |-> GlobalWindow, event |-> NoEvent,
                group |-> <<>>, calls |-> <<>>, suppressed |-> {}, unsuppressed |-> {}]
    /\ UNCHANGED <<managers, watchers, closeActionCalls, cancelActionCalls, listening, timeouts>>

\* The program as apply() wires it: every watcher is constructed for the
\* ambient window (lines 119, 189, 199 pass no window) and the dismissal
\* dispatcher runs for it.
Next ==
    \/ Register(GlobalWindow)
    \/ \E cw \in 1..Len(watchers) : Destroy(cw)
    \/ \E cw \in 1..Len(watchers) : Close(cw)
    \/ \E cw \in 1..Len(watchers) : RequestClose(cw)
    \/ Dispatch(GlobalWindow)
    \/ \E e \in InputEvents : InputEvent(e)
    \/ DetachDocument

Spec == Init /\ [][Next]_vars

\* The class as its constructor allows it to be used: a watcher may be
\* constructed for any window (line 33, parameter `window`), and the
\* dispatcher may be run for any window (line 19).
NextWindows ==
    \/ \E window \in Windows : Register(window)
    \/ \E cw \in 1..Len(watchers) : Destroy(cw)
    \/ \E cw \in 1..Len(watchers) : Close(cw)
    \/ \E cw \in 1..Len(watchers) : RequestClose(cw)
    \/ \E window \in Windows : Dispatch(window)
    \/ \E e \in InputEvents : InputEvent(e)
    \/ DetachDocument

SpecWindows == Init /\ [][NextWindows]_vars

\* The document receives a key release: the keyup listener of apply() runs.
\* No action runs a scheduled callback, for the listener schedules none.
KeyUp(e) ==
    /\ timeouts' = timeouts + keyup(e).scheduled
    /\ last' = [op |-> "keyup", cw |-> 0, window |-> GlobalWindow,
                event |-> [e EXCEPT !.defaultPrevented = keyup(e).defaultPrevented],
                group |-> <<>>, calls |-> <<>>, suppressed |-> {}, unsuppressed |-> {}]
    /\ UNCHANGED <<managers, watchers, closeActionCalls, cancelActionCalls, defaultView, listening>>

\* The program with the key releases the polyfill listens for
NextKeys ==
    \/ Next
    \/ \E e \in KeyUpEvents : KeyUp(e)

SpecKeys == Init /\ [][NextKeys]_vars

\* watcher.requestClose() whose cancelAction calls back into the module
ReentrantRequestClose(cw) ==
    \E verdicts \in ReentrantVerdicts :
        /\ verdicts[cw].reenters # "nothing"
        /\ Becomes(requestClose(Heap, cw, verdicts).heap, "requestClose", cw, watchers[cw].window, <<>>, verdicts)

\* A dismissal signal during which a cancelAction calls back into the module
ReentrantDispatch(window) ==
    \E verdicts \in ReentrantVerdicts :
        LET done == processCloseWatchers(Heap, window, verdicts)
        IN Becomes(done.heap, "dispatch", 0, window, done.calls, verdicts)

\* The program with cancelAction callbacks that re-enter it
NextReentrant ==
    \/ Next
    \/ \E cw \in 1..Len(watchers) : ReentrantRequestClose(cw)
    \/ ReentrantDispatch(GlobalWindow)

SpecReentrant == Init /\ [][NextReentrant]_vars

----------------------------------------------------------------------------
\* Vocabulary of the properties.

Watchers == 1..Len(watchers)

\* cw is a member of some group of some window's manager
InSomeGroup(heap, cw) ==
    \E window \in Windows :
        \E i \in 1..Len(heap.managers[window].groups) : includes(heap.managers[window].groups[i], cw)

\* requestClose() on cw would run its cancel path: active and not guarded
Callable(cw) == isActive(Heap, cw) /\ ~watchers[cw].isRunningCancelAction

\* How often x occurs in a sequence
Count(seq, x) == Cardinality({i \in 1..Len(seq) : seq[i] = x})

\* Watchers are numbered in registration order, so registration order is
\* numeric order: seq is in strictly reverse registration order
StrictlyReverseRegistrationOrder(seq) ==
    \A i, j \in 1..Len(seq) : i < j => seq[i] > seq[j]

----------------------------------------------------------------------------
\* C1: a single dismissal dispatch calls requestClose() exactly once on every
\* registration that was a member of the latest group when the dispatch
\* started (and on no other), also when registrations close during the walk.
C1_DispatchExhaustsLatestGroup ==
    last.op = "dispatch" =>
        \A cw \in Watchers : Count(last.calls, cw) = Count(last.group, cw)

\* C2: the requestClose() calls of every dismissal dispatch, the second and
\* later ones on a group included, are made in strictly reverse registration
\* order.
C2_DispatchCallsInReverseRegistrationOrder ==
    last.op = "dispatch" => StrictlyReverseRegistrationOrder(last.calls)

\* A qualifying user activation: a trusted input event that is neither an
\* Escape key event nor a mouse-sourced pointer event
Qualifying(e) ==
    /\ e.isTrusted
    /\ ~(e.class = "KeyboardEvent" /\ e.key \in {"Esc", "Escape"})
    /\ ~(e.class = "PointerEvent" /\ e.pointerType = "mouse")

\* The heap after k more registrations for `window`, one after the other
RECURSIVE Registered(_, _, _)
Registered(heap, window, k) ==
    IF k = 0 THEN heap ELSE Registered(InternalCloseWatcher(heap, window), window, k - 1)

\* C3: placement rule.  In every reachable state, constructing a watcher w for
\* a window appends a new group [w] after the existing groups when they are
\* fewer than allowedNumberOfGroups, and otherwise appends w at the end of the
\* latest group; nothing else of any manager changes.  Registrations made one
\* after the other from an empty manager with allowedNumberOfGroups = 1 end in
\* exactly one group holding them in registration order.
C3_PlacementRule ==
    \A window \in Windows :
        LET pre == managers[window]
            n == Len(pre.groups)
            w == Len(watchers) + 1
            post == InternalCloseWatcher(Heap, window).managers
        IN /\ IF n < pre.allowedNumberOfGroups
              THEN post[window].groups = Append(pre.groups, <<w>>)
              ELSE /\ n > 0
                   /\ post[window].groups = [pre.groups EXCEPT ![n] = Append(@, w)]
           /\ post[window].allowedNumberOfGroups = pre.allowedNumberOfGroups
           /\ post[window].nextUserInteractionAllowsAnewGroup = pre.nextUserInteractionAllowsAnewGroup
           /\ \A other \in Windows \ {window} : post[other] = managers[other]
           /\ (pre.allowedNumberOfGroups = 1 /\ n = 0) =>
                 \A k \in 1..MaxWatchers :
                    Registered(Heap, window, k).managers[window].groups
                        = << [j \in 1..k |-> Len(watchers) + j] >>

\* A registration started a second group and the next one was appended to it
C3_Witness ==
    /\ last.op = "register"
    /\ last.cw = 3
    /\ managers[GlobalWindow].groups = << <<1>>, <<2, 3>> >>

\* C4: requestClose() on an active, unguarded registration whose cancelAction
\* returns false, with the UI context present, removes the registration from
\* its group and invokes its closeAction exactly once; and in every reachable
\* state no closeAction has been invoked more than once.
C4_ClosedExactlyOnce ==
    /\ \A cw \in Watchers : closeActionCalls[cw] <= 1
    /\ \A cw \in Watchers : \A verdicts \in Verdicts :
          (Callable(cw) /\ defaultView /\ ~verdicts[cw].suppress) =>
              LET post == requestClose(Heap, cw, verdicts).heap
              IN /\ ~InSomeGroup(post, cw)
                 /\ post.closeActionCalls = [closeActionCalls EXCEPT ![cw] = @ + 1]

\* requestClose() has closed a registration whose cancelAction returned false
C4_Witness ==
    /\ last.op = "requestClose"
    /\ last.unsuppressed = {last.cw}
    /\ closeActionCalls[last.cw] = 1
    /\ ~InSomeGroup(Heap, last.cw)

\* C5: requestClose() on an active, unguarded registration whose cancelAction
\* returns true invokes the cancelAction and leaves every manager as it was
\* (same groups, same positions), the registration active and every
\* closeAction uninvoked.
C5_SuppressedStaysActive ==
    \A cw \in Watchers : \A verdicts \in Verdicts :
        (Callable(cw) /\ verdicts[cw].suppress) =>
            LET post == requestClose(Heap, cw, verdicts).heap
            IN /\ post.managers = managers
               /\ isActive(post, cw)
               /\ post.closeActionCalls = closeActionCalls
               /\ post.cancelActionCalls = [cancelActionCalls EXCEPT ![cw] = @ + 1]

\* requestClose() ran a cancelAction that returned true
C5_Witness ==
    /\ last.op = "requestClose"
    /\ last.suppressed = {last.cw}
    /\ isActive(Heap, last.cw)
    /\ closeActionCalls[last.cw] = 0

\* C6: every dismissal dispatch, with or without groups and whatever the
\* cancelActions return, leaves allowedNumberOfGroups one less when it was
\* greater than 1, and at 1 otherwise.
C6_DispatchDecrementsAllowedGroups ==
    \A window \in Windows : \A verdicts \in Verdicts :
        LET allowed == managers[window].allowedNumberOfGroups
            post == processCloseWatchers(Heap, window, verdicts).heap.managers[window]
        IN IF allowed > 1
           THEN post.allowedNumberOfGroups = allowed - 1
           ELSE allowed = 1 /\ post.allowedNumberOfGroups = 1

\* A dispatch with no group to walk changed the manager: it took the counter from 2 to 1
C6_Witness ==
    /\ last.op = "dispatch"
    /\ last.group = <<>>
    /\ managers[GlobalWindow].allowedNumberOfGroups = 1
    /\ ~managers[GlobalWindow].nextUserInteractionAllowsAnewGroup

\* C7: a qualifying activation received while nextUserInteractionAllowsAnewGroup
\* is true raises allowedNumberOfGroups by exactly one and clears the flag; one
\* received while the flag is false leaves allowedNumberOfGroups unchanged, so
\* two qualifying activations in a row raise it by one in all.
C7_ActivationGrantsOneGroup ==
    \A e \in InputEvents : Qualifying(e) =>
        LET pre == managers[GlobalWindow]
            first == deliver(managers, listening, e)
            post == first.managers[GlobalWindow]
        IN /\ IF pre.nextUserInteractionAllowsAnewGroup
              THEN post.allowedNumberOfGroups = pre.allowedNumberOfGroups + 1
              ELSE post.allowedNumberOfGroups = pre.allowedNumberOfGroups
           /\ ~post.nextUserInteractionAllowsAnewGroup
           /\ \A again \in InputEvents : Qualifying(again) =>
                 deliver(first.managers, listening /\ ~first.aborted, again).managers
                     = first.managers

\* A qualifying activation has raised allowedNumberOfGroups from 1 to 2
C7_Witness ==
    /\ last.op = "input"
    /\ Qualifying(last.event)
    /\ managers[GlobalWindow].allowedNumberOfGroups = 2
    /\ ~managers[GlobalWindow].nextUserInteractionAllowsAnewGroup

\* C8: a non-qualifying input event (untrusted, an Escape key event, or a
\* mouse-sourced pointer event) leaves the manager unchanged: an input event
\* that changed the manager was a qualifying one.
C8_NonQualifyingEventChangesNothing ==
    last.op = "input" => Qualifying(last.event)

\* C9: destroy() is idempotent: in every reachable state a second destroy() of
\* a registration leaves the heap as the first left it, and destroy() of an
\* inactive registration changes nothing, callback counts included.
C9_DestroyIdempotent ==
    \A cw \in Watchers :
        LET once == destroy(Heap, cw)
        IN /\ destroy(once, cw) = once
           /\ ~isActive(Heap, cw) => once = Heap

\* destroy() has removed a registration while others remain in a group
C9_Witness ==
    /\ last.op = "destroy"
    /\ ~isActive(Heap, last.cw)
    /\ Len(managers[GlobalWindow].groups) > 0

\* C10: removal is terminal.  A registration whose closeAction has run is in no
\* group, and no step makes a registration that is in no group (isActive
\* false) a member of a group again.
C10_RemovalIsTerminal ==
    /\ [](\A cw \in Watchers : closeActionCalls[cw] > 0 => ~InSomeGroup(Heap, cw))
    /\ [][\A cw \in Watchers :
            /\ ~InSomeGroup(Heap, cw) => ~InSomeGroup(Heap', cw)
            /\ ~isActive(Heap, cw) => ~isActive(Heap', cw)]_vars

\* A closed and a destroyed registration exist while a later one is still active
C10_Witness ==
    /\ Len(watchers) = 3
    /\ closeActionCalls[1] = 1 /\ ~InSomeGroup(Heap, 1)
    /\ closeActionCalls[2] = 0 /\ ~InSomeGroup(Heap, 2)
    /\ isActive(Heap, 3)
    /\ last.op = "dispatch"

\* How often cw occurs in the groups of the manager of `window`
Memberships(heap, window, cw) ==
    LET groups == heap.managers[window].groups
    IN Cardinality({<<i, j>> \in (1..Len(groups)) \X (1..MaxWatchers + 1) :
                        j <= Len(groups[i]) /\ groups[i][j] = cw})

\* Every registration is in at most one group, at most once, and no group is empty
GroupsWellFormed(heap) ==
    \A window \in Windows :
        /\ \A cw \in 1..Len(heap.watchers) : Memberships(heap, window, cw) <= 1
        /\ \A i \in 1..Len(heap.managers[window].groups) : Len(heap.managers[window].groups[i]) > 0

\* C11: between operations every registration appears in at most one group
\* and at most once in it, and no group of a manager is empty.
C11_GroupsWellFormed == GroupsWellFormed(Heap)

\* A destroy() emptied the only group, which was pruned
C11_Witness ==
    /\ last.op = "destroy"
    /\ Len(watchers) >= 1
    /\ managers[GlobalWindow].groups = <<>>

\* cw is a member of some group of the manager of the window it was created for
InGroupOfOwnWindow(heap, cw) ==
    LET groups == heap.managers[heap.watchers[cw].window].groups
    IN \E i \in 1..Len(groups) : includes(groups[i], cw)

\* C12: a registration created for any window is active exactly when it is in
\* a group of the manager of its own window, and destroy() and close() leave
\* it in no group of that manager.
C12_ActiveIffInGroupOfOwnWindow ==
    \A cw \in Watchers :
        /\ isActive(Heap, cw) <=> InGroupOfOwnWindow(Heap, cw)
        /\ ~InGroupOfOwnWindow(destroy(Heap, cw), cw)
        /\ defaultView => ~InGroupOfOwnWindow(close(Heap, cw), cw)

\* C13: close() on a registration that is not active, or while the document
\* has no UI context, does nothing: the closeAction is not invoked and the
\* manager is as it was, so without a context the registration stays in its
\* group and active.
C13_CloseWithoutEffect ==
    \A cw \in Watchers :
        (~isActive(Heap, cw) \/ ~defaultView) =>
            /\ close(Heap, cw) = Heap
            /\ isActive(close(Heap, cw), cw) = isActive(Heap, cw)

\* A requestClose() whose cancelAction allowed the close called close() after
\* the document had lost its context: the watcher is still in its group, its
\* closeAction has not run
C13_Witness ==
    /\ ~defaultView
    /\ last.op = "requestClose"
    /\ last.unsuppressed = {last.cw}
    /\ isActive(Heap, last.cw)
    /\ closeActionCalls[last.cw] = 0
    /\ \E other \in Watchers : ~isActive(Heap, other) /\ closeActionCalls[other] = 1

\* The heap as the cancelAction of cw sees it while it executes
During(cw) ==
    [Heap EXCEPT !.watchers[cw].isRunningCancelAction = TRUE, !.cancelActionCalls[cw] = @ + 1]

\* C14: a requestClose() on a registration whose cancelAction is executing is
\* ignored.  The nested call returns true and changes nothing; a
\* requestClose() whose cancelAction calls requestClose() on its own watcher
\* ends exactly as one whose cancelAction only returns; no cancelAction and no
\* closeAction has run twice, and the groups are well formed, after any
\* operation during which a cancelAction called requestClose() or triggered a
\* nested dispatch.
C14_ReentrantRequestCloseIgnored ==
    /\ GroupsWellFormed(Heap)
    /\ \A cw \in Watchers : cancelActionCalls[cw] <= 1 /\ closeActionCalls[cw] <= 1
    /\ \A cw \in Watchers :
          Callable(cw) =>
              /\ requestClose(During(cw), cw, NoVerdicts) = [heap |-> During(cw), result |-> TRUE]
              /\ \A suppress \in BOOLEAN :
                    requestClose(Heap, cw, [NoVerdicts EXCEPT ![cw] = [suppress |-> suppress, reenters |-> "requestClose"]])
                        = requestClose(Heap, cw, [NoVerdicts EXCEPT ![cw].suppress = suppress])

\* The cancelAction of watcher 1 triggered a nested dispatch during its
\* requestClose(): the dispatch reversed the group and ran the cancelAction of
\* watcher 2, its requestClose() on watcher 1 was ignored
C14_Witness ==
    /\ last.op = "requestClose"
    /\ last.cw = 1
    /\ last.suppressed = {1, 2}
    /\ managers[GlobalWindow].groups = <<<<2, 1>>>>
    /\ cancelActionCalls = <<1, 1>>
    /\ closeActionCalls = <<0, 0>>

\* C15: between operations no cancelAction is executing, so a requestClose()
\* on any active registration invokes its cancelAction, also when an earlier
\* requestClose() on it was suppressed and has returned.
C15_RequestCloseInvokesCancelAction ==
    \A cw \in Watchers :
        isActive(Heap, cw) =>
            requestClose(Heap, cw, NoVerdicts).heap.cancelActionCalls[cw] = cancelActionCalls[cw] + 1

\* The members of the groups, group after group, as they are stored
RECURSIVE Flattened(_)
Flattened(groups) ==
    IF Len(groups) = 0 THEN <<>> ELSE Head(groups) \o Flattened(Tail(groups))

\* Watchers are numbered as they are registered, so a sequence in registration
\* order is ascending
InRegistrationOrder(seq) == \A i, j \in 1..Len(seq) : i < j => seq[i] < seq[j]

\* C16: between operations, dispatches with suppressed closes included, every
\* group is stored in registration order and the groups in creation order: a
\* group never grows once a later group exists, so the stored members, group
\* after group, are in registration order.
C16_StoredOrderIsRegistrationOrder ==
    \A window \in Windows : InRegistrationOrder(Flattened(managers[window].groups))

\* C17: a dispatch whose callbacks only return touches the most recently
\* created group alone: every requestClose() it makes is on a member of that
\* group, the earlier groups are stored afterwards as before, and no callback
\* of a member of an earlier group has run.
C17_DispatchTouchesLatestGroupOnly ==
    \A window \in Windows : \A verdicts \in Verdicts :
        LET groups == managers[window].groups
            done == processCloseWatchers(Heap, window, verdicts)
            after == done.heap.managers[window].groups
        IN /\ \A k \in 1..Len(done.calls) : includes(LatestGroup(window), done.calls[k])
           /\ \A i \in 1..(Len(groups) - 1) :
                 /\ i <= Len(after)
                 /\ after[i] = groups[i]
                 /\ \A j \in 1..Len(groups[i]) :
                       /\ done.heap.cancelActionCalls[groups[i][j]] = cancelActionCalls[groups[i][j]]
                       /\ done.heap.closeActionCalls[groups[i][j]] = closeActionCalls[groups[i][j]]
                       /\ isActive(done.heap, groups[i][j])

\* A dispatch over the groups [[1], [2]] closed watcher 2 and pruned its
\* group; the older group [1] is stored as before and watcher 1 was not asked
C17_Witness ==
    /\ last.op = "dispatch"
    /\ last.group = <<2>>
    /\ last.calls = <<2>>
    /\ managers[GlobalWindow].groups = <<<<1>>>>
    /\ cancelActionCalls[1] = 0
    /\ closeActionCalls[2] = 1

\* C18: between operations allowedNumberOfGroups is 1 or 2 and a manager has
\* at most two groups; a watcher constructed while the manager has no group
\* starts one (the constructor does not reach groups.at(-1) of an empty array).
C18_AllowedGroupsBetweenOneAndTwo ==
    \A window \in Windows :
        /\ managers[window].allowedNumberOfGroups \in {1, 2}
        /\ Len(managers[window].groups) <= 2
        /\ Len(managers[window].groups) = 0 =>
              InternalCloseWatcher(Heap, window).managers[window].groups = <<<<Len(watchers) + 1>>>>

\* The activation raised the counter to 2 and a second group was started;
\* later both groups were removed, and the counter is still 2
C18_Witness ==
    /\ managers[GlobalWindow].allowedNumberOfGroups = 2
    /\ ~managers[GlobalWindow].nextUserInteractionAllowsAnewGroup
    /\ managers[GlobalWindow].groups = <<<<1>>, <<2>>>>
    /\ last.op = "register"

\* C19: in every reachable state a manager has at most allowedNumberOfGroups
\* groups.
C19_GroupsWithinAllowed ==
    \A window \in Windows :
        Len(managers[window].groups) <= managers[window].allowedNumberOfGroups

\* C19, amended: allowedNumberOfGroups caps the creation of groups.  A
\* constructor call that starts a group leaves at most allowedNumberOfGroups
\* groups, and between operations the groups outnumber the counter only in the
\* state a dispatch leaves when it lowers the counter from 2 to 1 while two
\* groups exist (the activation is spent by then).
C19_AllowedCapsGroupCreation ==
    \A window \in Windows :
        LET manager == managers[window]
            built == InternalCloseWatcher(Heap, window).managers[window]
        IN /\ Len(built.groups) > Len(manager.groups) => Len(built.groups) <= built.allowedNumberOfGroups
           /\ \/ Len(manager.groups) <= manager.allowedNumberOfGroups
              \/ /\ Len(manager.groups) = 2
                 /\ manager.allowedNumberOfGroups = 1
                 /\ ~manager.nextUserInteractionAllowsAnewGroup

\* A dispatch lowered the counter to 1 while the groups [1] and [2] existed;
\* the watcher constructed next joined the last group instead of starting one
C19_Witness ==
    /\ last.op = "register"
    /\ last.cw = 3
    /\ managers[GlobalWindow].allowedNumberOfGroups = 1
    /\ Len(managers[GlobalWindow].groups) = 2
    /\ includes(managers[GlobalWindow].groups[2], 3)
    /\ includes(managers[GlobalWindow].groups[2], 2)

\* C20: once the polyfill is applied, an Escape key release that is not
\* default-prevented makes the dispatcher run once for the window: the keyup
\* listener leaves a run of processCloseWatchers scheduled.
C20_EscapeReleaseSchedulesDispatch ==
    (last.op = "keyup" /\ ~last.event.defaultPrevented) => timeouts >= 1

====
